---------------------------- MODULE Spec2Model ----------------------------
(***************************************************************************)
(* Model of src/src/client.ts: the Client of the environment-variable      *)
(* service.  One Client object is shared by a set of callers; every caller *)
(* runs the async methods getToken, getEnv and setEnv, and every `await`   *)
(* of the source is a point where another caller may run.                  *)
(***************************************************************************)
EXTENDS Naturals, Sequences, FiniteSets, TLC

\* ------------------------------------------------------------ bounds
MaxTime == 2          \* the clock runs 1..MaxTime
MaxTTL == 0           \* a token issued at time t expires at t..t+MaxTTL
MaxEnvs == 3          \* longest search result the getEnv loop is applied to
MaxId == 2            \* ids of the service's entries are 1..MaxId

\* The callers sharing the one Client: two are enough to overlap, and callers
\* act on each other only through tokenInfo.
Callers == {"c1", "c2"}
Tokens == {"t1", "t2"}
TokenTypes == {"Bearer"}
Names == {"A", "AB"}
Values == {"v1"}
Remarks == {"r1"}

TOKEN_URL == "/open/auth/token"
ENVS_URL == "/open/envs"

VARIABLES
  tokenInfo,   \* Client.tokenInfo: <<>> (null) or <<[token, token_type, expiration]>>
  now,         \* the current time
  pc,          \* pc[c]: where caller c's call is suspended
  op,          \* op[c]: the method caller c called
  args,        \* args[c]: the arguments of that call
  stage,       \* stage[c]: the method whose `await this.getToken()` is pending
  lock,        \* lock[c]: the RWLock local to caller c's getToken invocation
  tok,         \* tok[c]: what that getToken invocation returned
  env,         \* env[c]: setEnv's local `env`
  sent,        \* sent[c]: the URL and method of every request c's current call has sent
  req,         \* req[c]: the request of caller c that is awaiting its response
  result,      \* result[c]: how caller c's last call ended
  solo,        \* solo[c]: no other caller's call has overlapped c's current call
  fnArg,       \* the input of a function applied on its own
  fnRes        \* its result

vars == <<tokenInfo, now, pc, op, args, stage, lock, tok, env, sent, req,
          result, solo, fnArg, fnRes>>

\* ------------------------------------------------------------ values
NoArgs == [name |-> "", value |-> "", remarks |-> ""]
NoResult == [state |-> "none", val |-> <<>>]
Ok(v) == [state |-> "ok", val |-> <<v>>]
Err(e) == [state |-> "error", val |-> <<e>>]

\* ITokenInfo
TokenInfo(t, ty, e) == [token |-> t, token_type |-> ty, expiration |-> e]

\* IGetEnvResp
EnvEntry(i, n, v, r) == [id |-> i, name |-> n, value |-> v, remarks |-> r]

Entries == {EnvEntry(i, n, "v0", "r0") : i \in 1..MaxId, n \in Names}

RECURSIVE SeqsUpTo(_, _)
SeqsUpTo(S, n) ==
  IF n = 0 THEN {<<>>}
  ELSE LET shorter == SeqsUpTo(S, n - 1)
       IN shorter \cup {Append(s, x) : s \in {t \in shorter : Len(t) = n - 1}, x \in S}

\* An HTTP exchange ends with a response, or with no response at all
\* (network error, or the 3000 ms timeout of the axios instance).
Resp(status, code, data) ==
  [kind |-> "resp", status |-> status, code |-> code, data |-> data]
NetErr == [kind |-> "neterr", status |-> 0, code |-> 0, data |-> <<>>]

FailResponses == {NetErr, Resp(500, 200, <<>>), Resp(200, 500, <<>>)}

\* The service issues a token with no expiration (0) or one that has not expired.
TokenResponses(t) ==
  FailResponses \cup
  {Resp(200, 200, <<TokenInfo(k, ty, e)>>) :
     k \in Tokens, ty \in TokenTypes, e \in {0} \cup {t + d : d \in 0..MaxTTL}}

\* What a caller does next depends on the one entry getEnv picks, so here the
\* service answers with no entry or one; the loop over longer results is
\* applied on its own under SpecGetEnv.
EnvsResponses ==
  FailResponses \cup {Resp(200, 200, <<l>>) : l \in {<<>>} \cup {<<e>> : e \in Entries}}

PutResponses(data) == FailResponses \cup {Resp(200, 200, <<data>>)}

\* An AxiosRequestConfig as the client builds it.
Request(method, url, auth, search, data) ==
  [method |-> method, url |-> url, auth |-> auth, search |-> search, data |-> data]

\* Sending: the request awaits its response, and its URL and method are logged.
Send(c, r) ==
  /\ req' = [req EXCEPT ![c] = <<r>>]
  /\ sent' = [sent EXCEPT ![c] = Append(@, [method |-> r.method, url |-> r.url])]

\* Mutant: the upper edge of the status range let through.
RequestResultLoose(resp) ==
  IF resp.kind = "neterr" THEN [ok |-> FALSE, err |-> "axios", data |-> <<>>]
  ELSE IF resp.status < 200 \/ resp.status > 300
       THEN [ok |-> FALSE, err |-> "requestFail: resp", data |-> <<>>]
  ELSE IF resp.code # 200
       THEN [ok |-> FALSE, err |-> "requestFail: code", data |-> <<>>]
  ELSE [ok |-> TRUE, err |-> "", data |-> resp.data]

\* ------------------------------------------------------------ Client.request
\* Lines 41-55: the awaited axios call throws when there is no response; then the
\* status is checked, then the body's code; only then is data returned.
RequestResult(resp) ==
  IF resp.kind = "neterr" THEN [ok |-> FALSE, err |-> "axios", data |-> <<>>]
  ELSE IF resp.status < 200 \/ resp.status >= 300
       THEN [ok |-> FALSE, err |-> "requestFail: resp", data |-> <<>>]
  ELSE IF resp.code # 200
       THEN [ok |-> FALSE, err |-> "requestFail: code", data |-> <<>>]
  ELSE [ok |-> TRUE, err |-> "", data |-> resp.data]

\* ------------------------------------------------------------ Client.getToken
\* `${tokenInfo.token_type} ${tokenInfo.token}`
Fmt(ti) == ti.token_type \o " " \o ti.token

\* Mutant: the expiration test inverted.
CacheHitInverted(ti) == ti # <<>> /\ ti[1].expiration = 0

\* `tokenInfo && tokenInfo.expiration`: non-null and a non-zero expiration.
CacheHit(ti) == ti # <<>> /\ ti[1].expiration # 0

\* Mutant: the finally block does not release the lock.
UnlockNever(l) == l

\* async-rwlock as getToken uses it: a lock is free or write-locked.
NewLock == "free"
CanWriteLock(l) == l = "free"
WriteLock(l) == "write"
Unlock(l) == "free"

\* Lines 70-77, run without suspension when getToken is called from `st`: the
\* first cache check; on a miss a new lock is made and write-locked, and the
\* invocation suspends at `await lock.writeLock()`.
GetTokenEnter(c, st) ==
  /\ stage' = [stage EXCEPT ![c] = st]
  /\ IF CacheHit(tokenInfo)
     THEN /\ pc' = [pc EXCEPT ![c] = "gt_ret"]
          /\ tok' = [tok EXCEPT ![c] = <<Fmt(tokenInfo[1])>>]
          /\ lock' = lock
     ELSE /\ CanWriteLock(NewLock)
          /\ pc' = [pc EXCEPT ![c] = "gt_locked"]
          /\ tok' = [tok EXCEPT ![c] = <<>>]
          /\ lock' = [lock EXCEPT ![c] = WriteLock(NewLock)]

\* A call begins: caller c's earlier result is dropped, and every call in
\* progress is now overlapped.
Begin(c, o, a) ==
  /\ pc[c] = "idle"
  /\ op' = [op EXCEPT ![c] = o]
  /\ args' = [args EXCEPT ![c] = a]
  /\ result' = [result EXCEPT ![c] = NoResult]
  /\ solo' = [q \in Callers |->
                IF q = c THEN \A r \in Callers \ {c} : pc[r] = "idle"
                ELSE IF pc[q] = "idle" THEN solo[q] ELSE FALSE]
  /\ UNCHANGED <<tokenInfo, now, env, sent, req, fnArg, fnRes>>

\* A call ends with a return value or a thrown error; its frames are gone.
End(c, res) ==
  /\ pc' = [pc EXCEPT ![c] = "idle"]
  /\ result' = [result EXCEPT ![c] = res]
  /\ op' = [op EXCEPT ![c] = "none"]
  /\ args' = [args EXCEPT ![c] = NoArgs]
  /\ stage' = [stage EXCEPT ![c] = "none"]
  /\ tok' = [tok EXCEPT ![c] = <<>>]
  /\ env' = [env EXCEPT ![c] = <<>>]
  /\ sent' = [sent EXCEPT ![c] = <<>>]
  /\ req' = [req EXCEPT ![c] = <<>>]
  /\ solo' = [solo EXCEPT ![c] = TRUE]

CallGetToken(c) ==
  /\ Begin(c, "getToken", NoArgs)
  /\ GetTokenEnter(c, "getToken")

\* getEnv evaluates `await this.getToken()` (line 96) before it calls request.
CallGetEnv(c) ==
  \E n \in Names :
    /\ Begin(c, "getEnv", [NoArgs EXCEPT !.name = n])
    /\ GetTokenEnter(c, "getEnv")

\* setEnv starts with getEnv(name) (line 117).
CallSetEnv(c) ==
  \E n \in Names, v \in Values, r \in Remarks :
    /\ Begin(c, "setEnv", [name |-> n, value |-> v, remarks |-> r])
    /\ GetTokenEnter(c, "getEnv")

\* The request doGetToken sends (lines 59-66).
TokenRequest == Request("GET", TOKEN_URL, "", "", <<>>)

\* Lines 78-83, after `await lock.writeLock()`: the second cache check, then
\* the token request of doGetToken.
GetTokenLocked(c) ==
  /\ pc[c] = "gt_locked"
  /\ lock[c] = "write"
  /\ IF CacheHit(tokenInfo)
     THEN /\ tok' = [tok EXCEPT ![c] = <<Fmt(tokenInfo[1])>>]
          /\ lock' = [lock EXCEPT ![c] = Unlock(lock[c])]
          /\ pc' = [pc EXCEPT ![c] = "gt_ret"]
          /\ UNCHANGED <<sent, req>>
     ELSE /\ Send(c, TokenRequest)
          /\ pc' = [pc EXCEPT ![c] = "gt_wait"]
          /\ UNCHANGED <<tok, lock>>
  /\ UNCHANGED <<tokenInfo, now, op, args, stage, env, result, solo, fnArg, fnRes>>

\* Mutant: the field is assigned whatever the request ended with.
TokenAfterAlways(ti, r) == r.data

\* Line 83, `this.tokenInfo = await this.doGetToken()`: the assignment runs only
\* when the awaited request has not thrown.
TokenAfter(ti, r) == IF r.ok THEN r.data ELSE ti

\* Mutant: a failed token request is sent again.
TokenResponseRetry(c) ==
  /\ pc[c] = "gt_wait"
  /\ \E resp \in TokenResponses(now) :
       LET r == RequestResult(resp) IN
       /\ tokenInfo' = TokenAfter(tokenInfo, r)
       /\ IF r.ok
          THEN /\ tok' = [tok EXCEPT ![c] = <<Fmt(tokenInfo'[1])>>]
               /\ pc' = [pc EXCEPT ![c] = "gt_ret"]
               /\ req' = [req EXCEPT ![c] = <<>>]
               /\ lock' = [lock EXCEPT ![c] = Unlock(lock[c])]
               /\ UNCHANGED <<op, args, stage, env, sent, result, solo>>
          ELSE /\ Send(c, TokenRequest)
               /\ UNCHANGED <<pc, op, args, stage, tok, env, result, solo, lock>>
  /\ UNCHANGED <<now, fnArg, fnRes>>

\* Lines 83-88: the token request ends.  On success the response is stored in
\* this.tokenInfo and formatted; on failure the error leaves getToken, and
\* getEnv and setEnv with it.  The finally block unlocks either way.
TokenResponse(c) ==
  /\ pc[c] = "gt_wait"
  /\ \E resp \in TokenResponses(now) :
       LET r == RequestResult(resp) IN
       /\ tokenInfo' = TokenAfter(tokenInfo, r)
       /\ IF r.ok
          THEN /\ tok' = [tok EXCEPT ![c] = <<Fmt(tokenInfo'[1])>>]
               /\ pc' = [pc EXCEPT ![c] = "gt_ret"]
               /\ req' = [req EXCEPT ![c] = <<>>]
               /\ UNCHANGED <<op, args, stage, env, sent, result, solo>>
          ELSE End(c, Err(r.err))
  /\ lock' = [lock EXCEPT ![c] = Unlock(lock[c])]
  /\ UNCHANGED <<now, fnArg, fnRes>>

\* ------------------------------------------------------------ getEnv, setEnv
\* Lines 103-109: the first entry whose name is exactly `name`, else none.
RECURSIVE FindEnvFrom(_, _, _)
FindEnvFrom(envs, name, i) ==
  IF i > Len(envs) THEN <<>>
  ELSE IF envs[i].name = name THEN <<envs[i]>>
  ELSE FindEnvFrom(envs, name, i + 1)

\* Mutant: the service's search is trusted, and its first entry taken.
FindEnvAny(envs, name) == IF envs = <<>> THEN <<>> ELSE <<envs[1]>>

FindEnv(envs, name) == FindEnvFrom(envs, name, 1)

\* `Env '${name}' Not Found`
NotFound(name) == "Env '" \o name \o "' Not Found"

\* Lines 103-109: what getEnv does with the data of a successful GET.
GetEnvResult(envs, name) ==
  LET found == FindEnv(envs, name)
  IN IF found = <<>> THEN Err(NotFound(name)) ELSE Ok(found[1])

\* The request getEnv sends (lines 92-101).
GetEnvRequest(auth, name) == Request("GET", ENVS_URL, auth, name, <<>>)

\* Mutant: the PUT carries no id.
SetEnvRequestNoId(auth, e, a) ==
  Request("PUT", ENVS_URL, auth, "", <<EnvEntry(0, a.name, a.value, a.remarks)>>)

\* The request setEnv sends (lines 122-135).
SetEnvRequest(auth, e, a) ==
  Request("PUT", ENVS_URL, auth, "",
          <<EnvEntry(e.id, a.name, a.value, a.remarks)>>)

\* getToken's promise is resolved and the awaiting method resumes: getToken
\* called directly returns the string, getEnv sends its GET, setEnv its PUT.
GetTokenReturn(c) ==
  /\ pc[c] = "gt_ret"
  /\ IF stage[c] = "getToken"
     THEN End(c, Ok(tok[c][1]))
     ELSE /\ Send(c, IF stage[c] = "getEnv"
                     THEN GetEnvRequest(tok[c][1], args[c].name)
                     ELSE SetEnvRequest(tok[c][1], env[c][1], args[c]))
          /\ pc' = [pc EXCEPT ![c] = IF stage[c] = "getEnv" THEN "ge_wait" ELSE "se_wait"]
          /\ tok' = [tok EXCEPT ![c] = <<>>]
          /\ UNCHANGED <<op, args, stage, env, result, solo>>
  /\ UNCHANGED <<tokenInfo, now, lock, fnArg, fnRes>>

\* Lines 92-110 and 117-126: the GET ends.  getEnv returns the entry found or
\* throws; setEnv goes on with the entry to `await this.getToken()` (line 126).
EnvsResponse(c) ==
  /\ pc[c] = "ge_wait"
  /\ \E resp \in EnvsResponses :
       LET r == RequestResult(resp)
           got == IF r.ok THEN GetEnvResult(r.data[1], args[c].name) ELSE Err(r.err)
       IN
       IF got.state = "error" \/ op[c] = "getEnv"
       THEN End(c, got) /\ lock' = lock
       ELSE /\ env' = [env EXCEPT ![c] = got.val]
            /\ req' = [req EXCEPT ![c] = <<>>]
            /\ GetTokenEnter(c, "setEnv")
            /\ UNCHANGED <<op, args, sent, result, solo>>
  /\ UNCHANGED <<tokenInfo, now, fnArg, fnRes>>

\* Lines 122-135: the PUT ends; setEnv returns its data or throws.
PutResponse(c) ==
  /\ pc[c] = "se_wait"
  /\ \E resp \in PutResponses(req[c][1].data[1]) :
       LET r == RequestResult(resp) IN
       End(c, IF r.ok THEN Ok(r.data[1]) ELSE Err(r.err))
  /\ UNCHANGED <<tokenInfo, now, lock, fnArg, fnRes>>

\* Time passes.
Tick ==
  /\ now < MaxTime
  /\ now' = now + 1
  /\ UNCHANGED <<tokenInfo, pc, op, args, stage, lock, tok, env, sent, req,
                 result, solo, fnArg, fnRes>>

\* The state after `new Client(...)` (lines 27-38), with no call made yet.
ClientInit ==
  /\ tokenInfo = <<>>
  /\ now = 1
  /\ pc = [c \in Callers |-> "idle"]
  /\ op = [c \in Callers |-> "none"]
  /\ args = [c \in Callers |-> NoArgs]
  /\ stage = [c \in Callers |-> "none"]
  /\ lock = [c \in Callers |-> "none"]
  /\ tok = [c \in Callers |-> <<>>]
  /\ env = [c \in Callers |-> <<>>]
  /\ sent = [c \in Callers |-> <<>>]
  /\ req = [c \in Callers |-> <<>>]
  /\ result = [c \in Callers |-> NoResult]
  /\ solo = [c \in Callers |-> TRUE]

Init == ClientInit /\ fnArg = <<>> /\ fnRes = <<>>

Next ==
  \/ \E c \in Callers : CallGetToken(c)
  \/ \E c \in Callers : CallGetEnv(c)
  \/ \E c \in Callers : CallSetEnv(c)
  \/ \E c \in Callers : GetTokenLocked(c)
  \/ \E c \in Callers : TokenResponse(c)
  \/ \E c \in Callers : GetTokenReturn(c)
  \/ \E c \in Callers : EnvsResponse(c)
  \/ \E c \in Callers : PutResponse(c)
  \/ Tick

Spec == Init /\ [][Next]_vars

\* The calls without the clock, which no line of the client reads.
NextCalls ==
  \/ \E c \in Callers : CallGetToken(c)
  \/ \E c \in Callers : CallGetEnv(c)
  \/ \E c \in Callers : CallSetEnv(c)
  \/ \E c \in Callers : GetTokenLocked(c)
  \/ \E c \in Callers : TokenResponse(c)
  \/ \E c \in Callers : GetTokenReturn(c)
  \/ \E c \in Callers : EnvsResponse(c)
  \/ \E c \in Callers : PutResponse(c)

\* Every suspended getToken is resumed: the microtask after `await
\* lock.writeLock()` runs, and every HTTP request ends (the axios instance has a
\* timeout of 3000 ms).
FairSpec ==
  /\ Init
  /\ [][NextCalls]_vars
  /\ \A c \in Callers : WF_vars(GetTokenLocked(c)) /\ WF_vars(TokenResponse(c))

\* ------------------------------------------------------------ request alone
Statuses == {199, 200, 204, 299, 300, 404, 500}
Codes == {0, 200, 201, 500}
Bodies == {"d1", "d2"}
AllResponses ==
  {NetErr} \cup {Resp(st, co, <<d>>) : st \in Statuses, co \in Codes, d \in Bodies}

InitRequest ==
  /\ ClientInit
  /\ fnArg \in {<<r>> : r \in AllResponses}
  /\ fnRes = <<>>

ApplyRequest ==
  /\ fnRes = <<>>
  /\ fnRes' = <<RequestResult(fnArg[1])>>
  /\ UNCHANGED <<tokenInfo, now, pc, op, args, stage, lock, tok, env, sent, req,
                 result, solo, fnArg>>

SpecRequest == InitRequest /\ [][ApplyRequest]_vars

\* ------------------------------------------------------------ getEnv's loop alone
SearchNames == Names \cup {"B"}

InitGetEnv ==
  /\ ClientInit
  /\ fnArg \in {<<[envs |-> l, name |-> n]>> :
                  l \in SeqsUpTo(Entries, MaxEnvs), n \in SearchNames}
  /\ fnRes = <<>>

ApplyGetEnv ==
  /\ fnRes = <<>>
  /\ fnRes' = <<GetEnvResult(fnArg[1].envs, fnArg[1].name)>>
  /\ UNCHANGED <<tokenInfo, now, pc, op, args, stage, lock, tok, env, sent, req,
                 result, solo, fnArg>>

SpecGetEnv == InitGetEnv /\ [][ApplyGetEnv]_vars

\* ------------------------------------------------------------ properties
Last(s) == s[Len(s)]
IsPrefix(s, t) == Len(s) <= Len(t) /\ \A i \in 1..Len(s) : s[i] = t[i]
Sent(method, url) == [method |-> method, url |-> url]
InGetToken(c) == pc[c] \in {"gt_locked", "gt_wait"}

\* A token response with a non-zero expiration is stored.
Stored == tokenInfo # <<>> /\ tokenInfo[1].expiration # 0

\* Caller c sends a request in this step.
Sends(c) == Len(sent'[c]) > Len(sent[c])

\* Caller c's getToken returns in this step.
Returns(c) == pc[c] # "gt_ret" /\ pc'[c] = "gt_ret"

C2_NeverExpired ==
  [][\A c \in Callers :
       Returns(c) =>
         tokenInfo'[1].expiration = 0 \/ tokenInfo'[1].expiration >= now']_vars

\* C3: request returns the body's data exactly when the status is in [200, 300)
\* and the body's code is 200; otherwise it throws and returns no data, the
\* status being checked before the code.
C3_Envelope ==
  fnRes # <<>> =>
    LET resp == fnArg[1]
        r == fnRes[1]
        statusOk == resp.kind = "resp" /\ resp.status >= 200 /\ resp.status < 300
    IN /\ r.ok <=> (statusOk /\ resp.code = 200)
       /\ r.ok => r.data = resp.data
       /\ ~r.ok => r.data = <<>>
       /\ (resp.kind = "resp" /\ ~statusOk) => r.err = "requestFail: resp"
       /\ (statusOk /\ resp.code # 200) => r.err = "requestFail: code"

\* C3 witness: a response at the upper edge of the range, with code 200, has
\* had its data returned.
C3_Witness ==
  /\ fnRes # <<>>
  /\ fnArg[1].kind = "resp" /\ fnArg[1].status = 299 /\ fnArg[1].code = 200
  /\ fnRes[1].ok /\ fnRes[1].data = <<"d2">>

\* C4: no request is sent twice: one invocation of getToken sends at most one
\* token request, one call sends at most one GET and one PUT to /open/envs, and
\* a call whose request has failed ends with the error, sending nothing more.
C4_NoRetry ==
  [][\A c \in Callers :
       /\ Sends(c) =>
            IF req'[c][1].url = TOKEN_URL
            THEN sent[c] = <<>> \/ Last(sent[c]).url # TOKEN_URL
            ELSE \A i \in 1..Len(sent[c]) :
                   sent[c][i] # Sent(req'[c][1].method, req'[c][1].url)
       /\ (req[c] # <<>> /\ result'[c].state = "error") =>
            pc'[c] = "idle" /\ req'[c] = <<>>]_vars

\* C4 witness: a call has ended with the error of a failed request.
C4_Witness ==
  \E c \in Callers :
    pc[c] = "idle" /\ result[c] = Err("requestFail: code") /\ req[c] = <<>>

\* C5: every request to /open/envs is sent with a token stored in the client
\* and carries '<token_type> <token>' of the token stored at that moment.
C5_TokenUsed ==
  [][\A c \in Callers :
       (Sends(c) /\ req'[c][1].url = ENVS_URL) =>
         /\ tokenInfo' # <<>>
         /\ req'[c][1].auth = tokenInfo'[1].token_type \o " " \o tokenInfo'[1].token]_vars

\* C6: token acquisition is single-flight: no two requests to /open/auth/token
\* are under way at the same time.
C6_SingleFlight ==
  \A c, d \in Callers : (pc[c] = "gt_wait" /\ pc[d] = "gt_wait") => c = d

\* C7: a failed token fetch leaves tokenInfo as it was and ends the call with
\* the error; when no other call overlaps, nothing usable is cached after it,
\* and a getToken called with nothing usable cached goes on to send a token
\* request instead of returning.
C7_FailedFetch ==
  [][\A c \in Callers :
       /\ (pc[c] = "gt_wait" /\ pc'[c] = "idle") =>
            /\ tokenInfo' = tokenInfo
            /\ result'[c].state = "error"
            /\ solo[c] => ~Stored'
       /\ (pc[c] \in {"idle", "ge_wait"} /\ pc'[c] \in {"gt_locked", "gt_ret"} /\ ~Stored) =>
            pc'[c] = "gt_locked"
       /\ (pc[c] = "gt_locked" /\ solo[c] /\ pc'[c] # pc[c]) =>
            /\ pc'[c] = "gt_wait"
            /\ req'[c] = <<Request("GET", TOKEN_URL, "", "", <<>>)>>]_vars

\* C7 witness: on a cold cache a token fetch has failed, and tokenInfo is
\* still null.
C7_Witness ==
  \E c \in Callers :
    /\ tokenInfo = <<>>
    /\ pc[c] = "idle" /\ result[c] = Err("requestFail: resp")

\* C8: getEnv returns the first entry, in response order, whose name is exactly
\* the name asked for, and throws "Env '<name>' Not Found" when there is none.
C8_FirstExactMatch ==
  fnRes # <<>> =>
    LET envs == fnArg[1].envs
        name == fnArg[1].name
        r == fnRes[1]
        hits == {i \in 1..Len(envs) : envs[i].name = name}
    IN IF hits = {}
       THEN r.state = "error" /\ r.val = <<"Env '" \o name \o "' Not Found">>
       ELSE /\ r.state = "ok"
            /\ \E i \in hits : (\A j \in hits : i <= j) /\ r.val = <<envs[i]>>

\* C8 witness: the first entry merely contains the name, two later ones have
\* it, and the earlier of the two has been returned.
C8_Witness ==
  /\ fnRes # <<>>
  /\ fnArg[1].name = "A"
  /\ Len(fnArg[1].envs) = 3
  /\ fnArg[1].envs[1].name = "AB"
  /\ fnArg[1].envs[2] = EnvEntry(2, "A", "v0", "r0")
  /\ fnArg[1].envs[3] = EnvEntry(1, "A", "v0", "r0")
  /\ fnRes[1] = Ok(EnvEntry(2, "A", "v0", "r0"))

\* The PUT of setEnv follows a GET that found an entry with the name, and
\* carries that entry's id with the name, value and remarks of the call.
PutAfterLookup(c) ==
  \A i \in 1..Len(sent[c]) :
    sent[c][i] = Sent("PUT", ENVS_URL) =>
      /\ i = Len(sent[c]) /\ pc[c] = "se_wait"
      /\ \E j \in 1..(i - 1) : sent[c][j] = Sent("GET", ENVS_URL)
      /\ env[c] # <<>> /\ env[c][1].name = args[c].name
      /\ req[c][1].data =
           <<[id |-> env[c][1].id, name |-> args[c].name,
              value |-> args[c].value, remarks |-> args[c].remarks]>>

ColdOrder == <<Sent("GET", TOKEN_URL), Sent("GET", ENVS_URL), Sent("PUT", ENVS_URL)>>

\* A call nothing overlaps whose first request is the token request: the cache
\* held nothing usable when it began.
SoloCold(c) == solo[c] /\ sent[c] # <<>> /\ sent[c][1].url = TOKEN_URL

\* With a token response of expiration 0 the second getToken of setEnv fetches
\* again.
RefetchOrder ==
  <<Sent("GET", TOKEN_URL), Sent("GET", ENVS_URL), Sent("GET", TOKEN_URL),
    Sent("PUT", ENVS_URL)>>

\* C9 as stated: setEnv is lookup-then-update, and on a cold cache a sequential
\* setEnv sends one token request, then the GET, then the PUT.
C9_Original ==
  \A c \in Callers :
    op[c] = "setEnv" =>
      /\ PutAfterLookup(c)
      /\ SoloCold(c) => IsPrefix(sent[c], ColdOrder)

\* C9 amended: setEnv is lookup-then-update, and on a cold cache a sequential
\* setEnv sends the token request, the GET and the PUT in that order, asking
\* for a token a second time, before the PUT, only when the token response
\* stored carries expiration 0.
C9_LookupThenUpdate ==
  /\ [](\A c \in Callers :
          op[c] = "setEnv" =>
            /\ PutAfterLookup(c)
            /\ SoloCold(c) =>
                 IsPrefix(sent[c], ColdOrder) \/ IsPrefix(sent[c], RefetchOrder))
  /\ [][\A c \in Callers :
          (op[c] = "setEnv" /\ solo[c] /\ sent[c] # <<>> /\ Sends(c)
             /\ req'[c][1].url = TOKEN_URL) =>
            tokenInfo # <<>> /\ tokenInfo[1].expiration = 0]_vars

\* C9 witness: a sequential setEnv on a cold cache has sent the token request,
\* the GET and the PUT.
C9_Witness ==
  \E c \in Callers :
    /\ op[c] = "setEnv" /\ solo[c] /\ pc[c] = "se_wait"
    /\ sent[c] = ColdOrder
    /\ env[c][1].id = 2

\* C10: every getToken under way eventually returns or throws, and outside
\* getToken a caller's lock is never left write-locked.
C10_NeverBlocks ==
  /\ \A c \in Callers : InGetToken(c) ~> ~InGetToken(c)
  /\ [](\A c \in Callers : ~InGetToken(c) => lock[c] # "write")

\* C10 witness: a getToken has thrown on a failed fetch and its lock is free.
C10_Witness ==
  \E c \in Callers :
    /\ pc[c] = "idle" /\ lock[c] = "free"
    /\ tokenInfo = <<>> /\ result[c].state = "error"

=============================================================================
